---- MODULE Spec2Model ----
(***************************************************************************)
(* State-machine model of the Stealthwatch API client of sna-visualizer    *)
(* (src/backend.py): construction and authentication, tenant listing and   *)
(* the flow query (submit, poll loop, results fetch).                      *)
(*                                                                         *)
(* Python dicts are functions whose DOMAIN is the set of keys present;     *)
(* lists are sequences; URLs are sequences of path segments; an exception  *)
(* is a record [type, msg] whose msg is the sequence of the pieces of the  *)
(* formatted message.                                                      *)
(***************************************************************************)
EXTENDS Integers, Sequences, FiniteSets, TLC

\* ---------------------------------------------------------------- bounds

\* Largest number of status polls of one query the model explores.
MaxPolls == 3

\* Largest number of raw records handed to the normalizer.
MaxFlows == 2

\* Largest number of tenants in a tenant listing.
MaxTenants == 2

\* Length of the log from which the interface takes no further event.
MaxLog == 3

\* ------------------------------------------------------ program constants

\* Status code of a successful submission.
CREATED == 201
\* Value of percentComplete that ends the poll loop.
COMPLETE == 100
\* Divisor turning percentComplete into the progress fraction.
PERCENT_SCALE == 100
\* Seconds slept between two polls.
POLL_DELAY == 2

\* --------------------------------------------------------- dict helpers

EmptyDict == [k \in {} |-> 0]

HasKey(d, k) == k \in DOMAIN d

\* dict.get(k, default)
Get(d, k, default) == IF k \in DOMAIN d THEN d[k] ELSE default

\* d[k] = v on a dict
Put(d, k, v) == [x \in DOMAIN d \cup {k} |-> IF x = k THEN v ELSE d[x]]

\* dict.update(e); also the merge of per-request headers over session headers
Update(d, e) == [x \in DOMAIN d \cup DOMAIN e |-> IF x \in DOMAIN e THEN e[x] ELSE d[x]]

\* ----------------------------------------------------------- input sets

Tokens == {"tokA", "tokB"}

\* Cookie jars a login response can carry: no XSRF-TOKEN cookie, an empty
\* one, or a token.
CookieJars == {EmptyDict} \cup {("XSRF-TOKEN" :> t) : t \in Tokens \cup {""}}

\* What api_session.post(auth_url) can produce: a transport failure (the
\* call raises a RequestException) or a response with a status and cookies.
LoginOutcomes ==
    {[transport |-> "error", status |-> 0, cookies |-> EmptyDict]}
    \cup {[transport |-> "ok", status |-> s, cookies |-> c] : s \in {200, 401}, c \in CookieJars}

TenantIds == {"101", "102"}

\* Include and exclude lists a caller passes (an empty list is "not given").
IncludeLists == {<<>>, <<"10.0.0.1">>}
ExcludeLists == {<<>>, <<"8.8.8.8">>}

\* Body texts of a rejected submission.
Bodies == {"bad request", ""}

QueryIds == {"abc123"}

\* Status documents (data.query of the status response): percentComplete
\* absent, or one of these values.
Percents == {0, 40, 100}
StatusDocs == {EmptyDict} \cup {("percentComplete" :> p) : p \in Percents}

\* Results documents (the JSON body of the results response).
Flows == {<<>>, <<"f1">>, <<"f1", "f2">>}
ResultDocs ==
    {EmptyDict, ("data" :> EmptyDict)} \cup {("data" :> ("flows" :> f)) : f \in Flows}

NoError == [type |-> "None", msg |-> <<>>]

\* No response received (yet).
NoResponse == [transport |-> "none", status |-> 0]

\* No results response received (yet).
NoResults == [transport |-> "none", json |-> EmptyDict]

\* No call of fetch_flows in progress.
NoArgs == [tenant_id |-> ""]

\* ------------------------------------------------------------------ state

VARIABLES
    client,         \* "none" | "ready": whether a StealthwatchClient instance exists
    headers,        \* api_session.headers of the instance
    tenant_id,      \* self.tenant_id ("" stands for None)
    pc,             \* "idle" | "submit" | "poll" | "fetch" | "done" | "failed"
    raised,         \* the exception the last operation raised, or NoError
    requests,       \* requests issued by the current operation, in order
    tenants,        \* what get_tenants last returned
    login_response, \* `response` of authenticate: what the login POST produced
    args,           \* the arguments of the fetch_flows call in progress
    response,       \* `response` of fetch_flows: what the submission POST produced
    results_response, \* `results_response` of fetch_flows: what the results GET produced
    flow_query_url, \* local of fetch_flows
    query_payload,  \* local of fetch_flows
    status_url,     \* local of fetch_flows
    progress,       \* TRUE iff a progress callback was supplied
    progress_calls, \* (fraction, label) of every invocation of the callback
    polled,         \* status documents the polls of this query received
    slept,          \* seconds this query has spent in time.sleep
    result,         \* what fetch_flows returned
    cancel_at       \* -1, or the number of polls issued when the caller cancelled

\* process_flows_to_dataframe
VARIABLES
    norm_pc,        \* "idle" | "loop" | "returned"
    flows,          \* the argument
    processed_data, \* the list the loop appends to
    df              \* the DataFrame returned

\* Two calls of fetch_flows running at once on one instance
VARIABLES
    shared_tenant_id, \* self.tenant_id of the instance both calls use
    call_pc,          \* per call: "idle" | "entered" | "stored" | "built" | "poll" |
                      \*           "fetch" | "done" | "failed"
    call_tenant_id,   \* per call: the tenant_id argument
    call_url,         \* per call: the local flow_query_url
    call_status_url,  \* per call: the local status_url
    call_requests     \* the requests sent so far: [call, method, url]

\* The Gradio interface (frontend.py)
VARIABLES
    smc_client,        \* gr.State: "None" or "client"
    csv_path_state,    \* gr.State: "None" or the path of the CSV
    log_state,         \* gr.State: the accumulated log, a sequence of messages
    log_box,           \* the log text box
    output_files_box,  \* the HTML box listing the generated files
    tenant_dd,         \* the tenant dropdown: [choices, visible]
    connect_btn,       \* the Connect button: [value, interactive]
    filters_interface, \* the filter panel: [visible]
    viz_interface,     \* the visualization panel: [visible]
    listed,            \* the tenants behind the choices of the dropdown
    last_connect,      \* how the latest connect_to_smc went
    last_search,       \* the return path the latest run_search took
    selected,          \* the tenant whose label the latest run_search was given
    fetched_tenant_id, \* the tenant_id the latest run_search passed to fetch_flows
    api_calls,         \* the fetch_flows calls the latest run_search made
    returned,          \* the tuple the latest run_search returned
    dispatch_error,    \* the latest event failed in Gradio's output dispatch
    viz_read           \* what the latest generate_visualizations did

backendVars == <<client, headers, tenant_id, pc, raised, requests, tenants, login_response,
          args, response, results_response, flow_query_url,
          query_payload, status_url, progress, progress_calls, polled, slept,
          result, cancel_at>>

normVars == <<norm_pc, flows, processed_data, df>>

concVars == <<shared_tenant_id, call_pc, call_tenant_id, call_url, call_status_url,
              call_requests>>

\* What the steps of the client leave alone, and what the normalizer does.
uiVars == <<smc_client, csv_path_state, log_state, log_box, output_files_box, tenant_dd,
            connect_btn, filters_interface, viz_interface, listed, last_connect,
            last_search, selected, fetched_tenant_id, api_calls, returned,
            dispatch_error, viz_read>>

outsideBackend == <<normVars, concVars, uiVars>>
outsideNorm == <<backendVars, concVars, uiVars>>
outsideConc == <<backendVars, normVars, uiVars>>
outsideUI == <<backendVars, normVars, concVars>>

vars == <<backendVars, normVars, concVars, uiVars>>

callVars == <<args, response, results_response, flow_query_url, query_payload, status_url, progress, progress_calls,
              polled, slept, result, cancel_at>>

\* One request as the session sends it: the session's headers with the
\* per-request headers merged over them.
Request(method, url, sessionHeaders, extra, data) ==
    [method |-> method, url |-> url, headers |-> Update(sessionHeaders, extra),
     data |-> data]

\* A DataFrame: its column labels and its rows.
EmptyFrame == [columns |-> <<>>, rows |-> <<>>]

InitNorm ==
    /\ norm_pc = "idle"
    /\ flows = <<>>
    /\ processed_data = <<>>
    /\ df = EmptyFrame

\* The calls that run at once.
Calls == {1, 2}

InitConc ==
    /\ shared_tenant_id = ""
    /\ call_pc = [c \in Calls |-> "idle"]
    /\ call_tenant_id = [c \in Calls |-> ""]
    /\ call_url = [c \in Calls |-> <<>>]
    /\ call_status_url = [c \in Calls |-> <<>>]
    /\ call_requests = {}

\* value of output_files_box before any file exists
NoFiles == "<p>No files generated yet</p>"

\* The interface as built by the gr.Blocks section.
InitUI ==
    /\ smc_client = "None"
    /\ csv_path_state = "None"
    /\ log_state = <<>>
    /\ log_box = <<"welcome">>
    /\ output_files_box = NoFiles
    /\ tenant_dd = [choices |-> <<>>, visible |-> FALSE]
    /\ connect_btn = [value |-> "Connect", interactive |-> TRUE]
    /\ filters_interface = [visible |-> FALSE]
    /\ viz_interface = [visible |-> FALSE]
    /\ listed = <<>>
    /\ last_connect = "none"
    /\ last_search = "none"
    /\ selected = EmptyDict
    /\ fetched_tenant_id = <<>>
    /\ api_calls = 0
    /\ returned = <<>>
    /\ dispatch_error = FALSE
    /\ viz_read = "none"

InitBackend ==
    /\ client = "none"
    /\ headers = EmptyDict
    /\ tenant_id = ""
    /\ pc = "idle"
    /\ raised = NoError
    /\ requests = <<>>
    /\ tenants = <<>>
    /\ login_response = NoResponse
    /\ args = NoArgs
    /\ response = NoResponse
    /\ results_response = NoResults
    /\ flow_query_url = <<>>
    /\ query_payload = EmptyDict
    /\ status_url = <<>>
    /\ progress = FALSE
    /\ progress_calls = <<>>
    /\ polled = <<>>
    /\ slept = 0
    /\ result = <<>>
    /\ cancel_at = -1

Init == InitBackend /\ InitNorm /\ InitConc /\ InitUI

\* ------------------------------------------------- construction and login

AuthUrl == <<"token", "v2", "authenticate">>

LoginData == [username |-> "user", password |-> "secret"]

\* response.raise_for_status()
RaisesForStatus(status) == status >= 400

\* `not xsrf_token` for xsrf_token = response.cookies.get('XSRF-TOKEN')
TokenMissing(cookies) == ~HasKey(cookies, "XSRF-TOKEN") \/ cookies["XSRF-TOKEN"] = ""

\* The exception authenticate raises for a login outcome, or NoError.
AuthError(o) ==
    IF o.transport = "error" \/ RaisesForStatus(o.status)
    THEN [type |-> "ConnectionError",
          msg |-> <<"Network error during authentication: ", "RequestException">>]
    ELSE IF TokenMissing(o.cookies)
    THEN [type |-> "ConnectionError",
          msg |-> <<"Authentication error: ",
                    "Authentication failed: XSRF-TOKEN not found in response cookies.">>]
    ELSE NoError

\* A variant that never stores the token on the session.
AttachToken_dropped(h, cookies) == h

\* self.api_session.headers.update({'X-XSRF-TOKEN': xsrf_token})
AttachToken(h, cookies) == Update(h, ("X-XSRF-TOKEN" :> cookies["XSRF-TOKEN"]))

\* StealthwatchClient(host, username, password): __init__ with its call of
\* authenticate. A raise leaves no instance behind.
Construct ==
    /\ client = "none"
    /\ \E o \in LoginOutcomes :
        /\ requests' = <<Request("POST", AuthUrl, EmptyDict, EmptyDict, LoginData)>>
        /\ login_response' = o
        /\ raised' = AuthError(o)
        /\ IF AuthError(o) = NoError
           THEN /\ client' = "ready"
                /\ headers' = AttachToken(EmptyDict, o.cookies)
           ELSE /\ client' = "none"
                /\ headers' = EmptyDict
    /\ tenant_id' = ""
    /\ pc' = "idle"
    /\ UNCHANGED <<tenants, callVars>>
    /\ UNCHANGED outsideBackend

\* ---------------------------------------------------------- get_tenants

TenantsUrl == <<"sw-reporting", "v1", "tenants">>

TenantLists == {<<>>, <<[id |-> "101", name |-> "Corp"]>>}

\* client.get_tenants(): one GET; any failure surfaces as ConnectionError.
GetTenants ==
    /\ client = "ready"
    /\ pc = "idle"
    /\ requests' = <<Request("GET", TenantsUrl, headers, EmptyDict, EmptyDict)>>
    /\ \/ \E doc \in {EmptyDict} \cup {("data" :> l) : l \in TenantLists} :
            /\ tenants' = Get(doc, "data", <<>>)
            /\ raised' = NoError
       \/ /\ tenants' = tenants
          /\ raised' = [type |-> "ConnectionError",
                        msg |-> <<"Network error fetching tenants: ", "RequestException">>]
    /\ pc' = "idle"
    /\ UNCHANGED <<client, headers, tenant_id, login_response, callVars>>
    /\ UNCHANGED outsideBackend

\* ---------------------------------------------- fetch_flows: the payload

\* dict.setdefault(k, v)
SetDefault(d, k, v) == IF k \in DOMAIN d THEN d ELSE Put(d, k, v)

\* A variant that adds the key to the role's ipAddresses dict instead of
\* replacing the dict.
SetIpAddresses_merged(p, role, key, ips) ==
    LET q == SetDefault(p, role, EmptyDict)
        r == SetDefault(q[role], "ipAddresses", EmptyDict)
    IN  Put(q, role, Put(r, "ipAddresses", Put(r["ipAddresses"], key, ips)))

\* query_payload.setdefault(role, {})["ipAddresses"] = {key: ips}
SetIpAddresses(p, role, key, ips) ==
    LET q == SetDefault(p, role, EmptyDict)
    IN  Put(q, role, Put(q[role], "ipAddresses", (key :> ips)))

\* A variant that takes an empty list for a given one.
Truthy_always(ips) == TRUE

\* `if ips:` on a list
Truthy(ips) == Len(ips) > 0

BasePayload(start_time, end_time, limit) ==
    [startDateTime |-> start_time, endDateTime |-> end_time, recordLimit |-> limit]

\* The four `if` statements of fetch_flows, in the order of the code.
BuildPayload(start_time, end_time, limit, subject_ips_in, subject_ips_ex, peer_ips_in, peer_ips_ex) ==
    LET p0 == BasePayload(start_time, end_time, limit)
        p1 == IF Truthy(subject_ips_in)
              THEN SetIpAddresses(p0, "subject", "includes", subject_ips_in) ELSE p0
        p2 == IF Truthy(subject_ips_ex)
              THEN SetIpAddresses(p1, "subject", "excludes", subject_ips_ex) ELSE p1
        p3 == IF Truthy(peer_ips_in)
              THEN SetIpAddresses(p2, "peer", "includes", peer_ips_in) ELSE p2
        p4 == IF Truthy(peer_ips_ex)
              THEN SetIpAddresses(p3, "peer", "excludes", peer_ips_ex) ELSE p3
    IN  p4

FlowQueryUrl(tid) == <<"sw-reporting", "v2", "tenants", tid, "flows", "queries">>

JsonHeaders == ("Content-type" :> "application/json") @@ ("Accept" :> "application/json")

\* Entry of fetch_flows up to the POST: stores the tenant id on the
\* instance, builds the URL from it and builds the payload.
FetchStart ==
    /\ client = "ready"
    /\ pc = "idle"
    /\ \E tid \in TenantIds, si \in IncludeLists, se \in ExcludeLists,
          pi \in IncludeLists, pe \in ExcludeLists, cb \in BOOLEAN :
        /\ args' = [tenant_id |-> tid, subject_ips_in |-> si, subject_ips_ex |-> se,
                     peer_ips_in |-> pi, peer_ips_ex |-> pe]
        /\ tenant_id' = tid
        /\ flow_query_url' = FlowQueryUrl(tenant_id')
        /\ query_payload' = BuildPayload("T0", "T1", 1000, si, se, pi, pe)
        /\ progress' = cb
    /\ pc' = "submit"
    /\ raised' = NoError
    /\ requests' = <<>>
    /\ UNCHANGED <<client, headers, tenants, login_response, response, results_response,
                   status_url,
                   progress_calls, polled, slept, result, cancel_at>>
    /\ UNCHANGED outsideBackend

\* ------------------------------------------- fetch_flows: the submission

\* What api_session.post(flow_query_url) can produce.
SubmitOutcomes ==
    {[transport |-> "error", status |-> 0, text |-> "", id |-> ""]}
    \cup {[transport |-> "ok", status |-> CREATED, text |-> "", id |-> q] : q \in QueryIds}
    \cup {[transport |-> "ok", status |-> s, text |-> b, id |-> ""] :
            s \in {200, 400}, b \in Bodies}

\* A variant that takes every status below 400 for a success.
SubmitRejected_errorsOnly(status) == status >= 400

\* `response.status_code != 201`
SubmitRejected(status) == status # CREATED

\* ValueError(f"API Error ({response.status_code}): {response.text}")
ApiError(status, text) ==
    [type |-> "ValueError", msg |-> <<"API Error (", status, "): ", text>>]

\* An exception of the requests library that fetch_flows lets through.
TransportError == [type |-> "RequestException", msg |-> <<"transport failure">>]

\* The POST of the query and the reading of the job id.
Submit ==
    /\ pc = "submit"
    /\ requests' = Append(requests,
                     Request("POST", flow_query_url, headers, JsonHeaders, query_payload))
    /\ \E o \in SubmitOutcomes :
        /\ response' = o
        /\ IF o.transport = "error"
           THEN /\ pc' = "failed"
                /\ raised' = TransportError
                /\ status_url' = status_url
           ELSE IF SubmitRejected(o.status)
           THEN /\ pc' = "failed"
                /\ raised' = ApiError(o.status, o.text)
                /\ status_url' = status_url
           ELSE /\ pc' = "poll"
                /\ raised' = raised
                /\ status_url' = flow_query_url \o <<o.id>>
    /\ UNCHANGED <<client, headers, tenant_id, tenants, login_response, args,
                   results_response, flow_query_url, query_payload, progress,
                   progress_calls, polled,
                   slept, result, cancel_at>>
    /\ UNCHANGED outsideBackend

\* ---------------------------------------------- fetch_flows: the poll loop

\* A variant that passes the percentage on without scaling it.
ProgressFraction_unscaled(doc) ==
    [num |-> Get(doc, "percentComplete", 0), den |-> 1]

\* A variant whose default for a missing percentComplete is -1.
ProgressFraction_negDefault(doc) ==
    [num |-> Get(doc, "percentComplete", -1), den |-> PERCENT_SCALE]

\* search_status.get("percentComplete", 0) / 100, as an exact fraction
ProgressFraction(doc) ==
    [num |-> Get(doc, "percentComplete", 0), den |-> PERCENT_SCALE]

\* A variant that takes any started job for a finished one.
IsComplete_started(doc) == HasKey(doc, "percentComplete") /\ doc["percentComplete"] > 0

\* search_status.get("percentComplete") == 100.0
IsComplete(doc) == HasKey(doc, "percentComplete") /\ doc["percentComplete"] = COMPLETE

\* The exception of a progress callback that raises; fetch_flows has no
\* handler around the call.
CallbackError == [type |-> "CallbackError", msg |-> <<"progress callback raised">>]

\* The status GETs among the requests of this query.
StatusPolls == {i \in 1..Len(requests) : requests[i].url = status_url}

\* A variant of the iteration that sleeps before it tests for completion.
Poll_sleepFirst ==
    /\ pc = "poll"
    /\ Cardinality(StatusPolls) < MaxPolls
    /\ requests' = Append(requests, Request("GET", status_url, headers, EmptyDict, EmptyDict))
    /\ \/ /\ pc' = "failed"
          /\ raised' = TransportError
          /\ UNCHANGED <<progress_calls, polled, slept>>
       \/ \E doc \in StatusDocs, cb \in IF progress THEN {"returns", "raises"} ELSE {"returns"} :
            /\ polled' = Append(polled, doc)
            /\ progress_calls' =
                 IF progress
                 THEN Append(progress_calls, [fraction |-> ProgressFraction(doc),
                                              label |-> "Search in progress..."])
                 ELSE progress_calls
            /\ IF cb = "raises"
               THEN /\ pc' = "failed"
                    /\ raised' = CallbackError
                    /\ slept' = slept
               ELSE IF IsComplete(doc)
               THEN /\ pc' = "fetch"
                    /\ raised' = raised
                    /\ slept' = slept + POLL_DELAY
               ELSE /\ pc' = "poll"
                    /\ raised' = raised
                    /\ slept' = slept + POLL_DELAY
    /\ UNCHANGED <<client, headers, tenant_id, tenants, login_response, args, response,
                   results_response, flow_query_url, query_payload, status_url, progress,
                   result, cancel_at>>
    /\ UNCHANGED outsideBackend

\* A variant of the iteration that swallows a failed status GET and polls
\* again.
Poll_retryOnError ==
    /\ pc = "poll"
    /\ Cardinality(StatusPolls) < MaxPolls
    /\ requests' = Append(requests, Request("GET", status_url, headers, EmptyDict, EmptyDict))
    /\ \/ /\ pc' = "poll"
          /\ raised' = raised
          /\ UNCHANGED <<progress_calls, polled, slept>>
       \/ \E doc \in StatusDocs, cb \in IF progress THEN {"returns", "raises"} ELSE {"returns"} :
            /\ polled' = Append(polled, doc)
            /\ progress_calls' =
                 IF progress
                 THEN Append(progress_calls, [fraction |-> ProgressFraction(doc),
                                              label |-> "Search in progress..."])
                 ELSE progress_calls
            /\ IF cb = "raises"
               THEN /\ pc' = "failed"
                    /\ raised' = CallbackError
                    /\ slept' = slept
               ELSE IF IsComplete(doc)
               THEN /\ pc' = "fetch"
                    /\ raised' = raised
                    /\ slept' = slept
               ELSE /\ pc' = "poll"
                    /\ raised' = raised
                    /\ slept' = slept + POLL_DELAY
    /\ UNCHANGED <<client, headers, tenant_id, tenants, login_response, args, response,
                   results_response, flow_query_url, query_payload, status_url, progress,
                   result, cancel_at>>
    /\ UNCHANGED outsideBackend

\* One iteration of `while True`: the status GET, raise_for_status, the
\* progress callback, the completion test and the sleep.
Poll ==
    /\ pc = "poll"
    /\ Cardinality(StatusPolls) < MaxPolls
    /\ requests' = Append(requests, Request("GET", status_url, headers, EmptyDict, EmptyDict))
    /\ \/ /\ pc' = "failed"
          /\ raised' = TransportError
          /\ UNCHANGED <<progress_calls, polled, slept>>
       \/ \E doc \in StatusDocs, cb \in IF progress THEN {"returns", "raises"} ELSE {"returns"} :
            /\ polled' = Append(polled, doc)
            /\ progress_calls' =
                 IF progress
                 THEN Append(progress_calls, [fraction |-> ProgressFraction(doc),
                                              label |-> "Search in progress..."])
                 ELSE progress_calls
            /\ IF cb = "raises"
               THEN /\ pc' = "failed"
                    /\ raised' = CallbackError
                    /\ slept' = slept
               ELSE IF IsComplete(doc)
               THEN /\ pc' = "fetch"
                    /\ raised' = raised
                    /\ slept' = slept
               ELSE /\ pc' = "poll"
                    /\ raised' = raised
                    /\ slept' = slept + POLL_DELAY
    /\ UNCHANGED <<client, headers, tenant_id, tenants, login_response, args, response,
                   results_response, flow_query_url, query_payload, status_url, progress,
                   result, cancel_at>>
    /\ UNCHANGED outsideBackend

\* The caller asks for the query to be abandoned while the loop runs.
\* fetch_flows takes no cancellation argument and reads no such flag.
Cancel ==
    /\ pc = "poll"
    /\ cancel_at = -1
    /\ cancel_at' = Cardinality(StatusPolls)
    /\ UNCHANGED <<client, headers, tenant_id, pc, raised, requests, tenants,
                   login_response, args, response, results_response, flow_query_url,
                   query_payload, status_url, progress, progress_calls, polled, slept,
                   result>>
    /\ UNCHANGED outsideBackend

\* -------------------------------------------- fetch_flows: the results GET

ResultsUrl == status_url \o <<"results">>

\* A variant whose default for a missing flows list is not the empty list.
FlowsOf_nullDefault(doc) == Get(Get(doc, "data", EmptyDict), "flows", <<"null">>)

\* results_response.json().get("data", {}).get("flows", [])
FlowsOf(doc) == Get(Get(doc, "data", EmptyDict), "flows", <<>>)

FetchResults ==
    /\ pc = "fetch"
    /\ requests' = Append(requests, Request("GET", ResultsUrl, headers, EmptyDict, EmptyDict))
    /\ \/ /\ pc' = "failed"
          /\ raised' = TransportError
          /\ result' = result
          /\ results_response' = [transport |-> "error", json |-> EmptyDict]
       \/ \E doc \in ResultDocs :
            /\ pc' = "done"
            /\ raised' = raised
            /\ result' = FlowsOf(doc)
            /\ results_response' = [transport |-> "ok", json |-> doc]
    /\ UNCHANGED <<client, headers, tenant_id, tenants, login_response, args, response,
                   flow_query_url, query_payload, status_url, progress, progress_calls,
                   polled, slept, cancel_at>>
    /\ UNCHANGED outsideBackend

\* fetch_flows has returned or raised and the caller has taken the outcome:
\* the locals are gone, self.tenant_id and the session stay.
Return ==
    /\ pc \in {"done", "failed"}
    /\ pc' = "idle"
    /\ raised' = NoError
    /\ requests' = <<>>
    /\ args' = NoArgs
    /\ response' = NoResponse
    /\ results_response' = NoResults
    /\ flow_query_url' = <<>>
    /\ query_payload' = EmptyDict
    /\ status_url' = <<>>
    /\ progress' = FALSE
    /\ progress_calls' = <<>>
    /\ polled' = <<>>
    /\ slept' = 0
    /\ result' = <<>>
    /\ cancel_at' = -1
    /\ UNCHANGED <<client, headers, tenant_id, tenants, login_response>>
    /\ UNCHANGED outsideBackend

Next ==
    \/ Construct
    \/ GetTenants
    \/ FetchStart
    \/ Submit
    \/ Poll
    \/ Cancel
    \/ FetchResults
    \/ Return

Spec == Init /\ [][Next]_vars

\* ------------------------------------------ process_flows_to_dataframe

\* Python's None in a cell of the table.
Null == "null"

\* An optional JSON member: <<>> when the key is absent, <<v>> when it is v.
Member(key, opt) == IF opt = <<>> THEN EmptyDict ELSE (key :> opt[1])

StatisticsShapes ==
    {<<>>, <<("firstActiveTime" :> "t1")>>,
     <<("firstActiveTime" :> "t1") @@ ("byteCount" :> "1500")>>}
SubjectShapes ==
    {<<>>, <<("portProtocol" :> ("port" :> "51000"))>>,
     <<("ipAddress" :> "10.0.0.1") @@ ("portProtocol" :> EmptyDict)>>}
PeerShapes ==
    {<<>>, <<("ipAddress" :> "8.8.8.8")>>,
     <<("ipAddress" :> "8.8.8.8") @@ ("portProtocol" :> ("port" :> "443"))>>}
ProtocolShapes == {<<>>, <<"TCP">>}

\* Raw flow records as the API returns them, with any nested member absent.
RawFlows ==
    {Member("statistics", st) @@ Member("subject", su) @@ Member("peer", pe)
       @@ Member("protocol", pr) :
       st \in StatisticsShapes, su \in SubjectShapes, pe \in PeerShapes,
       pr \in ProtocolShapes}

FlowLists == UNION {[1..n -> RawFlows] : n \in 0..MaxFlows}

Columns == <<"startTime", "sourceIp", "sourcePort", "destinationIp",
             "destinationPort", "protocol", "totalBytes">>

\* A variant with the byte count read from the wrong member.
FlowRow_wrongMember(flow) ==
    [startTime |-> Get(Get(flow, "statistics", EmptyDict), "firstActiveTime", Null),
     sourceIp |-> Get(Get(flow, "subject", EmptyDict), "ipAddress", Null),
     sourcePort |->
        Get(Get(Get(flow, "subject", EmptyDict), "portProtocol", EmptyDict), "port", Null),
     destinationIp |-> Get(Get(flow, "peer", EmptyDict), "ipAddress", Null),
     destinationPort |->
        Get(Get(Get(flow, "peer", EmptyDict), "portProtocol", EmptyDict), "port", Null),
     protocol |-> Get(flow, "protocol", Null),
     totalBytes |-> Get(Get(flow, "statistics", EmptyDict), "firstActiveTime", Null)]

\* The dict appended for one raw record: chains of dict.get with {} as
\* the default of every inner step and None as that of the last.
FlowRow(flow) ==
    [startTime |-> Get(Get(flow, "statistics", EmptyDict), "firstActiveTime", Null),
     sourceIp |-> Get(Get(flow, "subject", EmptyDict), "ipAddress", Null),
     sourcePort |->
        Get(Get(Get(flow, "subject", EmptyDict), "portProtocol", EmptyDict), "port", Null),
     destinationIp |-> Get(Get(flow, "peer", EmptyDict), "ipAddress", Null),
     destinationPort |->
        Get(Get(Get(flow, "peer", EmptyDict), "portProtocol", EmptyDict), "port", Null),
     protocol |-> Get(flow, "protocol", Null),
     totalBytes |-> Get(Get(flow, "statistics", EmptyDict), "byteCount", Null)]

\* pd.DataFrame(processed_data) for a non-empty list of dicts with these keys
DataFrame(data) == [columns |-> Columns, rows |-> data]

\* The call, with `if not flows: return pd.DataFrame()`.
NormCall ==
    /\ norm_pc = "idle"
    /\ \E fl \in FlowLists :
        /\ flows' = fl
        /\ processed_data' = <<>>
        /\ IF ~Truthy(fl)
           THEN /\ df' = EmptyFrame
                /\ norm_pc' = "returned"
           ELSE /\ df' = df
                /\ norm_pc' = "loop"
    /\ UNCHANGED outsideNorm

\* One iteration of `for flow in flows`.
NormStep ==
    /\ norm_pc = "loop"
    /\ Len(processed_data) < Len(flows)
    /\ processed_data' = Append(processed_data, FlowRow(flows[Len(processed_data) + 1]))
    /\ UNCHANGED <<norm_pc, flows, df>>
    /\ UNCHANGED outsideNorm

\* return pd.DataFrame(processed_data)
NormReturn ==
    /\ norm_pc = "loop"
    /\ Len(processed_data) = Len(flows)
    /\ df' = DataFrame(processed_data)
    /\ norm_pc' = "returned"
    /\ UNCHANGED <<flows, processed_data>>
    /\ UNCHANGED outsideNorm

NextNorm ==
    \/ NormCall
    \/ NormStep
    \/ NormReturn

SpecNorm == Init /\ [][NextNorm]_vars

\* ------------------------------- two fetch_flows calls on one instance

\* A thread enters fetch_flows(tenant_id, ...) on the shared instance.
ConcEnter(c) ==
    /\ call_pc[c] = "idle"
    /\ \E tid \in TenantIds : call_tenant_id' = [call_tenant_id EXCEPT ![c] = tid]
    /\ call_pc' = [call_pc EXCEPT ![c] = "entered"]
    /\ UNCHANGED <<shared_tenant_id, call_url, call_status_url, call_requests>>
    /\ UNCHANGED outsideConc

\* self.tenant_id = tenant_id
ConcStore(c) ==
    /\ call_pc[c] = "entered"
    /\ shared_tenant_id' = call_tenant_id[c]
    /\ call_pc' = [call_pc EXCEPT ![c] = "stored"]
    /\ UNCHANGED <<call_tenant_id, call_url, call_status_url, call_requests>>
    /\ UNCHANGED outsideConc

\* flow_query_url = f".../tenants/{self.tenant_id}/flows/queries"
ConcBuildUrl(c) ==
    /\ call_pc[c] = "stored"
    /\ call_url' = [call_url EXCEPT ![c] = FlowQueryUrl(shared_tenant_id)]
    /\ call_pc' = [call_pc EXCEPT ![c] = "built"]
    /\ UNCHANGED <<shared_tenant_id, call_tenant_id, call_status_url, call_requests>>
    /\ UNCHANGED outsideConc

\* The submission POST and the building of status_url.
ConcSubmit(c) ==
    /\ call_pc[c] = "built"
    /\ call_requests' = call_requests \cup {[call |-> c, method |-> "POST", url |-> call_url[c]]}
    /\ \E o \in SubmitOutcomes :
        IF o.transport = "error" \/ SubmitRejected(o.status)
        THEN /\ call_pc' = [call_pc EXCEPT ![c] = "failed"]
             /\ call_status_url' = call_status_url
        ELSE /\ call_pc' = [call_pc EXCEPT ![c] = "poll"]
             /\ call_status_url' = [call_status_url EXCEPT ![c] = call_url[c] \o <<o.id>>]
    /\ UNCHANGED <<shared_tenant_id, call_tenant_id, call_url>>
    /\ UNCHANGED outsideConc

\* One iteration of the poll loop.
ConcPoll(c) ==
    /\ call_pc[c] = "poll"
    /\ call_requests' =
          call_requests \cup {[call |-> c, method |-> "GET", url |-> call_status_url[c]]}
    /\ \/ call_pc' = [call_pc EXCEPT ![c] = "failed"]
       \/ \E doc \in StatusDocs :
            call_pc' = [call_pc EXCEPT ![c] = IF IsComplete(doc) THEN "fetch" ELSE "poll"]
    /\ UNCHANGED <<shared_tenant_id, call_tenant_id, call_url, call_status_url>>
    /\ UNCHANGED outsideConc

\* The results GET.
ConcFetchResults(c) ==
    /\ call_pc[c] = "fetch"
    /\ call_requests' =
          call_requests \cup {[call |-> c, method |-> "GET",
                               url |-> call_status_url[c] \o <<"results">>]}
    /\ \E next \in {"done", "failed"} : call_pc' = [call_pc EXCEPT ![c] = next]
    /\ UNCHANGED <<shared_tenant_id, call_tenant_id, call_url, call_status_url>>
    /\ UNCHANGED outsideConc

NextConc ==
    \E c \in Calls :
        \/ ConcEnter(c)
        \/ ConcStore(c)
        \/ ConcBuildUrl(c)
        \/ ConcSubmit(c)
        \/ ConcPoll(c)
        \/ ConcFetchResults(c)

SpecConc == Init /\ [][NextConc]_vars

\* ------------------------------------------------- the Gradio interface

\* Text is a sequence of characters.
\* " (ID: "
SEP == <<" ", "(", "I", "D", ":", " ">>

\* 'Unknown'
Unknown == <<"U", "n", "k", "n", "o", "w", "n">>

\* 'N/A'
NA == <<"N", "/", "A">>

\* Names and ids of tenants as the server may return them.
TenantNames == {<<"A">>, <<"A">> \o SEP \o <<"9", ")", " ", "B">>}
TenantIdTexts == {<<"7">>}

\* Tenant records of a listing; a record may lack its name.
TenantRecords ==
    {("name" :> n) @@ ("id" :> i) : n \in TenantNames, i \in TenantIdTexts}
        \cup {("id" :> <<"1", "0", "1">>)}

\* The values client.get_tenants() may return.
TenantListings == UNION {[1..n -> TenantRecords] : n \in 0..MaxTenants}

\* f"{t.get('name', 'Unknown')} (ID: {t.get('id', 'N/A')})"
TenantLabel(t) == Get(t, "name", Unknown) \o SEP \o Get(t, "id", NA) \o <<")">>

\* tenant_names = [... for t in tenants]
TenantLabels(ts) == [i \in 1..Len(ts) |-> TenantLabel(ts[i])]

\* The positions at which sep occurs in s.
Occurrences(s, sep) ==
    {i \in 1..(Len(s) - Len(sep) + 1) : SubSeq(s, i, i + Len(sep) - 1) = sep}

\* str.split(sep): cut at every occurrence of sep, left to right.
RECURSIVE Split(_, _)
Split(s, sep) ==
    IF Occurrences(s, sep) = {}
    THEN <<s>>
    ELSE LET i == CHOOSE x \in Occurrences(s, sep) : \A y \in Occurrences(s, sep) : x <= y
         IN  <<SubSeq(s, 1, i - 1)>> \o Split(SubSeq(s, i + Len(sep), Len(s)), sep)

\* s[:-1]
DropLast(s) == SubSeq(s, 1, Len(s) - 1)

\* tenant_str.split(" (ID: ")[1][:-1]; the index raises IndexError when the
\* separator does not occur.
CanParseTenantId(tenant_str) == Len(Split(tenant_str, SEP)) >= 2
ParseTenantId(tenant_str) == DropLast(Split(tenant_str, SEP)[2])

\* How a connection attempt can go: the constructor raises, get_tenants
\* raises, or both succeed with a listing.
ConnectOutcomes ==
    {[kind |-> k, tenants |-> <<>>] : k \in {"auth_failed", "list_failed"}}
        \cup {[kind |-> "ok", tenants |-> ts] : ts \in TenantListings}

\* The dict connect_to_smc returns from its try block.
Connected(tenants_, current_log) ==
    [smc_client |-> "client",
     tenant_dd |-> [choices |-> TenantLabels(tenants_), visible |-> TRUE],
     connect_btn |-> [value |-> "Connected", interactive |-> FALSE],
     filters_interface |-> [visible |-> TRUE],
     viz_interface |-> [visible |-> TRUE],
     log_box |-> Append(current_log, "connected"),
     log_state |-> Append(current_log, "connected")]

\* A variant of the except branch that keeps a client object.
Failed_staleClient(current_log) ==
    [smc_client |-> "client",
     tenant_dd |-> [visible |-> FALSE],
     connect_btn |-> [value |-> "Connect", interactive |-> TRUE],
     filters_interface |-> [visible |-> FALSE],
     viz_interface |-> [visible |-> FALSE],
     log_box |-> Append(current_log, "connection_failed"),
     log_state |-> Append(current_log, "connection_failed")]

\* The dict connect_to_smc returns from its except branch.
Failed(current_log) ==
    [smc_client |-> "None",
     tenant_dd |-> [visible |-> FALSE],
     connect_btn |-> [value |-> "Connect", interactive |-> TRUE],
     filters_interface |-> [visible |-> FALSE],
     viz_interface |-> [visible |-> FALSE],
     log_box |-> Append(current_log, "connection_failed"),
     log_state |-> Append(current_log, "connection_failed")]

\* connect_btn.click: connect_to_smc runs and Gradio applies the returned
\* dict to the seven outputs; a returned component updates the properties
\* its constructor call names.  The handler is also reachable while the
\* button is not interactive (every event is an API endpoint).
ConnectToSmc ==
    /\ Len(log_state) < MaxLog
    /\ \E outcome \in ConnectOutcomes :
        LET out == IF outcome.kind = "ok"
                   THEN Connected(outcome.tenants, log_state)
                   ELSE Failed(log_state)
        IN  /\ smc_client' = out.smc_client
            /\ tenant_dd' = Update(tenant_dd, out.tenant_dd)
            /\ connect_btn' = Update(connect_btn, out.connect_btn)
            /\ filters_interface' = Update(filters_interface, out.filters_interface)
            /\ viz_interface' = Update(viz_interface, out.viz_interface)
            /\ log_box' = out.log_box
            /\ log_state' = out.log_state
            /\ listed' = IF outcome.kind = "ok" THEN outcome.tenants ELSE listed
            /\ last_connect' = outcome.kind
    /\ dispatch_error' = FALSE
    /\ UNCHANGED <<csv_path_state, output_files_box, last_search, selected,
                   fetched_tenant_id, api_calls, returned, viz_read>>
    /\ UNCHANGED outsideUI

\* outputs=[...] of run_search_btn.click
SearchOutputs == <<"log_box", "output_files_box", "csv_path_state", "log_state">>

\* os.path.abspath("output/traffic_dump.csv")
CsvPath == "output/traffic_dump.csv"

\* What the environment lets a search run into, in the order of the code:
\* the time range does not parse, fetch_flows raises, it returns no flows,
\* writing the CSV raises, or all goes well.
SearchOutcomes == {"time_raises", "fetch_raises", "empty", "write_raises", "flows"}

\* run_search got as far as calling client.fetch_flows.
ReachesFetch(client_, tenant_str, outcome) ==
    /\ client_ # "None"
    /\ tenant_str # <<>>
    /\ CanParseTenantId(tenant_str)
    /\ outcome # "time_raises"

\* The return statement run_search leaves by.
SearchPath(client_, tenant_str, outcome) ==
    IF client_ = "None" THEN "no_client"
    ELSE IF tenant_str = <<>> THEN "no_tenant"
    ELSE IF ~ReachesFetch(client_, tenant_str, outcome) THEN "exception"
    ELSE IF outcome = "fetch_raises" THEN "exception"
    ELSE IF outcome = "empty" THEN "no_flows"
    ELSE IF outcome = "write_raises" THEN "exception"
    ELSE "success"

\* The tuple of each return statement of run_search; a log is the current
\* log and the message of the path.
SearchReturn(path, current_log) ==
    CASE path = "no_client" ->
           <<Append(current_log, "connect_first"), NoFiles, "None",
             Append(current_log, "connect_first")>>
      [] path = "no_tenant" ->
           <<Append(current_log, "select_tenant"), NoFiles, "None",
             Append(current_log, "select_tenant")>>
      [] path = "no_flows" ->
           <<Append(current_log, "no_data"), NoFiles, "None">>
      [] path = "success" ->
           <<Append(current_log, "search_completed"),
             "csv_link", CsvPath,
             Append(current_log, "search_completed")>>
      [] path = "exception" ->
           <<Append(current_log, "search_error"), NoFiles, "None",
             Append(current_log, "search_error")>>

\* run_search_btn.click: run_search runs on the current states and the
\* dropdown's value (None while nothing is selected); Gradio assigns the
\* returned tuple to the four outputs, and fails the event, updating no
\* output, when the tuple has another length.
RunSearch ==
    /\ Len(log_state) < MaxLog
    /\ \E sel \in 0..Len(tenant_dd.choices), outcome \in SearchOutcomes :
        LET tenant_str == IF sel = 0 THEN <<>> ELSE tenant_dd.choices[sel]
            path == SearchPath(smc_client, tenant_str, outcome)
            ret == SearchReturn(path, log_state)
            called == ReachesFetch(smc_client, tenant_str, outcome)
        IN  /\ last_search' = path
            /\ returned' = ret
            /\ selected' = IF sel = 0 THEN EmptyDict ELSE listed[sel]
            /\ api_calls' = IF called THEN 1 ELSE 0
            /\ fetched_tenant_id' = IF called THEN ParseTenantId(tenant_str) ELSE <<>>
            /\ IF Len(ret) = Len(SearchOutputs)
               THEN /\ log_box' = ret[1]
                    /\ output_files_box' = ret[2]
                    /\ csv_path_state' = ret[3]
                    /\ log_state' = ret[4]
                    /\ dispatch_error' = FALSE
               ELSE /\ dispatch_error' = TRUE
                    /\ UNCHANGED <<log_box, output_files_box, csv_path_state, log_state>>
    /\ UNCHANGED <<smc_client, tenant_dd, connect_btn, filters_interface, viz_interface,
                   listed, last_connect, viz_read>>
    /\ UNCHANGED outsideUI

\* generate_viz_btn.click: generate_visualizations returns three values for
\* its three outputs on every path.
GenerateVisualizations ==
    /\ Len(log_state) < MaxLog
    /\ \E outcome \in {"ok", "raises"} :
        IF csv_path_state = "None"
        THEN /\ viz_read' = "no_data"
             /\ log_box' = Append(log_state, "no_data_available")
             /\ output_files_box' = NoFiles
             /\ log_state' = Append(log_state, "no_data_available")
        ELSE /\ viz_read' = "read_csv"
             /\ IF outcome = "ok"
                THEN /\ log_box' = Append(log_state, "generated")
                     /\ output_files_box' = "csv_and_html_links"
                     /\ log_state' = Append(log_state, "generated")
                ELSE /\ log_box' = Append(log_state, "visualization_error")
                     /\ output_files_box' = NoFiles
                     /\ log_state' = Append(log_state, "visualization_error")
    /\ dispatch_error' = FALSE
    /\ UNCHANGED <<smc_client, csv_path_state, tenant_dd, connect_btn, filters_interface,
                   viz_interface, listed, last_connect, last_search, selected,
                   fetched_tenant_id, api_calls, returned>>
    /\ UNCHANGED outsideUI

NextUI ==
    \/ ConnectToSmc
    \/ RunSearch
    \/ GenerateVisualizations

SpecUI == Init /\ [][NextUI]_vars

\* ================================================================ claims

\* Positions in `requests` of the submission POSTs and of the results GETs
\* of the query in progress (StatusPolls are its status GETs).
SubmitPosts == {i \in 1..Len(requests) :
                  requests[i].method = "POST" /\ requests[i].url = flow_query_url}
ResultGets == {i \in 1..Len(requests) : requests[i].url = ResultsUrl}

InFetch == pc \in {"submit", "poll", "fetch", "done", "failed"}

\* A status document that reports 100 percent.
Reports100(doc) == "percentComplete" \in DOMAIN doc /\ doc["percentComplete"] = 100

\* The poll loop has been left by its `break`.
LoopExited == pc \in {"fetch", "done"} \/ ResultGets # {}

\* C1: with a progress callback supplied, the callback has been invoked once
\* for every status document polled, the i-th invocation with the i-th
\* percentage over 100; no document before the last reports 100, and the
\* loop is left exactly when the last one does, after as many polls as
\* invocations.
C1_ProgressOncePerPoll ==
    (InFetch /\ progress) =>
        /\ Len(progress_calls) = Len(polled)
        /\ \A i \in 1..Len(polled) :
             "percentComplete" \in DOMAIN polled[i] =>
                /\ progress_calls[i].fraction.num * 100
                     = polled[i]["percentComplete"] * progress_calls[i].fraction.den
                /\ progress_calls[i].fraction.den > 0
        /\ \A i \in 1..(Len(polled) - 1) : ~Reports100(polled[i])
        /\ LoopExited =>
             /\ Len(polled) >= 1
             /\ Reports100(polled[Len(polled)])
             /\ Cardinality(StatusPolls) = Len(progress_calls)
        /\ pc = "poll" => \A i \in 1..Len(polled) : ~Reports100(polled[i])

\* C1 witness: percentages 0, 40, 100 were polled, the callback got
\* 0/100, 40/100, 100/100 and the loop was left after the third poll.
C1_Witness ==
    /\ pc = "fetch"
    /\ progress
    /\ polled = <<("percentComplete" :> 0), ("percentComplete" :> 40),
                  ("percentComplete" :> 100)>>
    /\ Len(progress_calls) = 3
    /\ progress_calls[2].fraction = [num |-> 40, den |-> 100]
    /\ Cardinality(StatusPolls) = 3

\* C2: with an attempt limit of 2 and a server that never reports 100
\* percent, the loop stops after exactly 2 status polls with a Timeout: no
\* third poll is issued, and after the second the call has failed with it.
C2_BoundedPolling ==
    (/\ InFetch
     /\ \A i \in 1..Len(polled) : ~Reports100(polled[i])
     /\ raised.type \notin {"RequestException", "CallbackError"}) =>
        /\ Cardinality(StatusPolls) <= 2
        /\ Len(polled) = 2 => (pc = "failed" /\ raised.type = "Timeout")

\* C3: the requests of one fetch_flows call are one submission POST, then
\* status polls, then at most one results GET, which comes last, directly
\* after a status poll that reported 100 percent; a call that returned has
\* issued exactly one results GET.
C3_LifecycleOrder ==
    InFetch =>
        /\ SubmitPosts = (IF Len(requests) >= 1 THEN {1} ELSE {})
        /\ \A i \in 2..Len(requests) : i \in StatusPolls \cup ResultGets
        /\ StatusPolls \cap ResultGets = {}
        /\ Cardinality(ResultGets) <= 1
        /\ \A i \in ResultGets :
             /\ i = Len(requests)
             /\ i >= 3
             /\ (i - 1) \in StatusPolls
             /\ Len(polled) = i - 2
             /\ Reports100(polled[i - 2])
        /\ pc = "done" => Cardinality(ResultGets) = 1
        /\ pc # "submit" => Len(requests) >= 1

\* C3 witness: a call that returned after the submission, two status polls
\* and the results GET.
C3_Witness ==
    /\ pc = "done"
    /\ Len(requests) = 4
    /\ SubmitPosts = {1}
    /\ StatusPolls = {2, 3}
    /\ ResultGets = {4}

\* C4: once the caller has raised the cancellation signal, at most one more
\* status poll is issued and no results GET.
C4_Cancellation ==
    (InFetch /\ cancel_at >= 0) =>
        /\ Cardinality(StatusPolls) <= cancel_at + 1
        /\ ResultGets = {}

\* C5: a progress callback that raises does not end the call: fetch_flows
\* never fails with the callback's exception.
C5_CallbackIsolation ==
    ~(pc = "failed" /\ raised.type = "CallbackError")

\* The login response is a successful one carrying a non-empty token.
LoginCarriesToken ==
    /\ login_response.transport = "ok"
    /\ login_response.status < 400
    /\ "XSRF-TOKEN" \in DOMAIN login_response.cookies
    /\ login_response.cookies["XSRF-TOKEN"] # ""

\* C6: a successful login response that carries the token yields a client
\* instance; an instance exists only after such a login, its session holds
\* the token of that login, and every request issued after the login POST
\* carries that token in the X-XSRF-TOKEN header.
C6_TokenAttached ==
    /\ LoginCarriesToken => client = "ready"
    /\ client = "ready" =>
          /\ LoginCarriesToken
          /\ "X-XSRF-TOKEN" \in DOMAIN headers
          /\ headers["X-XSRF-TOKEN"] = login_response.cookies["XSRF-TOKEN"]
          /\ \A i \in 1..Len(requests) :
               requests[i].url # AuthUrl =>
                  /\ "X-XSRF-TOKEN" \in DOMAIN requests[i].headers
                  /\ requests[i].headers["X-XSRF-TOKEN"]
                       = login_response.cookies["XSRF-TOKEN"]
    /\ client = "none" => \A i \in 1..Len(requests) : requests[i].url = AuthUrl

\* C6 witness: after a login that returned tokB, a whole query (submission,
\* two polls, results) went out with tokB on each request.
C6_Witness ==
    /\ client = "ready"
    /\ login_response.cookies["XSRF-TOKEN"] = "tokB"
    /\ pc = "done"
    /\ Len(requests) = 4
    /\ \A i \in 1..4 : requests[i].headers["X-XSRF-TOKEN"] = "tokB"

\* C7: a login response without the token makes authenticate fail with an
\* error whose kind differs from the kind it raises on a transport failure.
C7_AuthErrorDistinct ==
    (/\ client = "none"
     /\ login_response.transport = "ok"
     /\ login_response.status < 400
     /\ ~LoginCarriesToken) =>
        /\ raised.type # "None"
        /\ raised.type # AuthError([transport |-> "error", status |-> 0,
                                    cookies |-> EmptyDict]).type

\* The ipAddresses block the submitted payload must hold for a role given
\* its include and exclude lists, when at most one of them is non-empty.
RoleSerializedAlone(payload, role, ips_in, ips_ex) ==
    /\ (ips_in # <<>> /\ ips_ex = <<>>) =>
          /\ role \in DOMAIN payload
          /\ DOMAIN payload[role] = {"ipAddresses"}
          /\ DOMAIN payload[role]["ipAddresses"] = {"includes"}
          /\ payload[role]["ipAddresses"]["includes"] = ips_in
    /\ (ips_in = <<>> /\ ips_ex # <<>>) =>
          /\ role \in DOMAIN payload
          /\ DOMAIN payload[role] = {"ipAddresses"}
          /\ DOMAIN payload[role]["ipAddresses"] = {"excludes"}
          /\ payload[role]["ipAddresses"]["excludes"] = ips_ex
    /\ (ips_in = <<>> /\ ips_ex = <<>>) => role \notin DOMAIN payload

\* The submission POST has gone out.
Submitted == InFetch /\ Len(requests) >= 1

\* C8: in the submitted payload, a role with only an include list or only
\* an exclude list has exactly that key with that list under ipAddresses,
\* and a role with neither has no block.
C8_SingleListPerRole ==
    Submitted =>
        /\ RoleSerializedAlone(requests[1].data, "subject",
                               args.subject_ips_in, args.subject_ips_ex)
        /\ RoleSerializedAlone(requests[1].data, "peer",
                               args.peer_ips_in, args.peer_ips_ex)

\* C8 witness: subject includes only and peer excludes only, submitted.
C8_Witness ==
    /\ Submitted
    /\ args.subject_ips_in = <<"10.0.0.1">> /\ args.subject_ips_ex = <<>>
    /\ args.peer_ips_in = <<>> /\ args.peer_ips_ex = <<"8.8.8.8">>
    /\ requests[1].data["subject"] = [ipAddresses |-> [includes |-> <<"10.0.0.1">>]]
    /\ requests[1].data["peer"] = [ipAddresses |-> [excludes |-> <<"8.8.8.8">>]]

\* The block of a role given both lists: one key only, and it is excludes
\* with the exclude list (the later assignment replaces the earlier one).
RoleSerializedBoth(payload, role, ips_in, ips_ex) ==
    (ips_in # <<>> /\ ips_ex # <<>>) =>
        /\ role \in DOMAIN payload
        /\ DOMAIN payload[role] = {"ipAddresses"}
        /\ Cardinality(DOMAIN payload[role]["ipAddresses"]) = 1
        /\ DOMAIN payload[role]["ipAddresses"] = {"excludes"}
        /\ payload[role]["ipAddresses"]["excludes"] = ips_ex

\* C9: when both lists of a role are non-empty, the submitted block of the
\* role holds exactly one of the two keys, and always the same one,
\* whatever the lists are: excludes.
C9_BothListsOneKey ==
    Submitted =>
        /\ RoleSerializedBoth(requests[1].data, "subject",
                              args.subject_ips_in, args.subject_ips_ex)
        /\ RoleSerializedBoth(requests[1].data, "peer",
                              args.peer_ips_in, args.peer_ips_ex)

\* C9 witness: both lists given for the subject, submitted.
C9_Witness ==
    /\ Submitted
    /\ args.subject_ips_in = <<"10.0.0.1">>
    /\ args.subject_ips_ex = <<"8.8.8.8">>
    /\ requests[1].data["subject"] = [ipAddresses |-> [excludes |-> <<"8.8.8.8">>]]

\* C10: a submission answered with a status other than 201 makes the call
\* fail with the API error holding that status and the response text, with
\* the submission POST as the only request of the call.
C10_SubmissionFailure ==
    (Submitted /\ response.transport = "ok" /\ response.status # 201) =>
        /\ pc = "failed"
        /\ raised.type = "ValueError"
        /\ raised.msg[2] = response.status
        /\ raised.msg[4] = response.text
        /\ Len(requests) = 1
        /\ SubmitPosts = {1}
        /\ StatusPolls = {}
        /\ ResultGets = {}

\* C10 witness: a submission rejected with status 400 and a body.
C10_Witness ==
    /\ pc = "failed"
    /\ Submitted
    /\ response.transport = "ok"
    /\ response.status = 400
    /\ response.text = "bad request"
    /\ raised = [type |-> "ValueError", msg |-> <<"API Error (", 400, "): ", "bad request">>]

\* The results document lacks the flows list: no data object, or a data
\* object without flows.
FlowsMissing(doc) == "data" \notin DOMAIN doc \/ "flows" \notin DOMAIN doc["data"]

\* C11: a results response that was received returns from fetch_flows
\* without an error; when its document has no data object or no flows
\* list the returned sequence is empty, otherwise it is the flows list.
C11_MissingFlowsEmpty ==
    (InFetch /\ results_response.transport = "ok") =>
        /\ pc = "done"
        /\ raised.type = "None"
        /\ FlowsMissing(results_response.json) => result = <<>>
        /\ ~FlowsMissing(results_response.json) =>
              result = results_response.json["data"]["flows"]

\* C11 witness: a completed job whose results document has no data object
\* at all returned the empty sequence.
C11_Witness ==
    /\ pc = "done"
    /\ results_response.transport = "ok"
    /\ "data" \notin DOMAIN results_response.json
    /\ result = <<>>
    /\ raised.type = "None"

\* The value at a path of keys in a raw record, Null when a key on the way
\* is absent.
RECURSIVE AtPath(_, _)
AtPath(doc, path) ==
    IF path = <<>> THEN doc
    ELSE IF Head(path) \in DOMAIN doc THEN AtPath(doc[Head(path)], Tail(path))
    ELSE "null"

\* The fixed path of every output field.
FieldPaths ==
    [startTime |-> <<"statistics", "firstActiveTime">>,
     sourceIp |-> <<"subject", "ipAddress">>,
     sourcePort |-> <<"subject", "portProtocol", "port">>,
     destinationIp |-> <<"peer", "ipAddress">>,
     destinationPort |-> <<"peer", "portProtocol", "port">>,
     protocol |-> <<"protocol">>,
     totalBytes |-> <<"statistics", "byteCount">>]

\* C12: the normalizer has no raising step; when it has returned, the table
\* holds one row per raw record, in input order, each of its seven fields
\* being the value at the field's path or null when the path is absent;
\* for no records the table is the empty table, with no rows.
C12_NormalizerTotal ==
    /\ norm_pc \in {"idle", "loop", "returned"}
    /\ norm_pc = "returned" =>
          /\ Len(df.rows) = Len(flows)
          /\ \A i \in 1..Len(flows) :
                /\ DOMAIN df.rows[i] = DOMAIN FieldPaths
                /\ \A f \in DOMAIN FieldPaths :
                      df.rows[i][f] = AtPath(flows[i], FieldPaths[f])
          /\ flows = <<>> => df = [columns |-> <<>>, rows |-> <<>>]

\* C12 witness: two records, the first without statistics.byteCount (null
\* byte count, its start time populated), the second without statistics.
C12_Witness ==
    /\ norm_pc = "returned"
    /\ Len(flows) = 2
    /\ Len(df.rows) = 2
    /\ "statistics" \in DOMAIN flows[1]
    /\ "byteCount" \notin DOMAIN flows[1]["statistics"]
    /\ df.rows[1].totalBytes = "null"
    /\ df.rows[1].startTime = "t1"
    /\ "statistics" \notin DOMAIN flows[2]
    /\ df.rows[2].startTime = "null"

\* The state of the query job, read off the position of fetch_flows:
\* no job (nothing submitted, or the submission failed), Submitted (no poll
\* answered yet), InProgress, Complete (the loop was left by its break) and
\* Failed (an exception ended the loop).
JobState ==
    IF ~InFetch \/ status_url = <<>> THEN "NoJob"
    ELSE IF LoopExited THEN "Complete"
    ELSE IF pc = "failed" THEN "Failed"
    ELSE IF polled = <<>> THEN "Submitted"
    ELSE "InProgress"

\* One step of the job's state machine as C13 describes it.
JobStep ==
    /\ (JobState = "NoJob" /\ JobState' # "NoJob") =>
          (JobState' = "Submitted" /\ polled' = <<>>)
    /\ JobState' = "Submitted" => JobState \in {"NoJob", "Submitted"}
    /\ (JobState' = "InProgress" /\ polled' # polled) =>
          /\ JobState \in {"Submitted", "InProgress"}
          /\ Len(polled') = Len(polled) + 1
          /\ ~Reports100(polled'[Len(polled')])
    /\ (JobState # "Complete" /\ JobState' = "Complete") =>
          /\ JobState \in {"Submitted", "InProgress"}
          /\ Len(polled') = Len(polled) + 1
          /\ Reports100(polled'[Len(polled')])
    /\ (Cardinality(StatusPolls') = Cardinality(StatusPolls) + 1 /\ polled' = polled) =>
          /\ JobState' = "Failed"
          /\ raised'.type = "RequestException"
    /\ JobState = "Failed" =>
          \/ JobState' = "Failed" /\ requests' = requests /\ raised' = raised
          \/ ~InFetch'
    /\ JobState = "Complete" => (JobState' = "Complete" \/ ~InFetch')

\* C13: the job starts at Submitted, stays InProgress on every poll that
\* reports less than 100, becomes Complete only by a poll that reports
\* exactly 100, becomes Failed with the error raised to the caller on a
\* transport failure of a status poll; a Failed job sees no further request,
\* and Complete and Failed are not left while the call lasts.
C13_PollStateMachine == [][JobStep]_vars

\* C13 witness: a job that was InProgress after one poll and Failed on the
\* transport failure of the second.
C13_Witness ==
    /\ JobState = "Failed"
    /\ raised.type = "RequestException"
    /\ Len(polled) = 1
    /\ Cardinality(StatusPolls) = 2

\* C14: every fraction handed to the progress callback lies in [0, 1],
\* for status documents whose percentComplete is absent or within 0..100.
C14_FractionInRange ==
    \A i \in 1..Len(progress_calls) :
        /\ progress_calls[i].fraction.den > 0
        /\ 0 <= progress_calls[i].fraction.num
        /\ progress_calls[i].fraction.num <= progress_calls[i].fraction.den

\* C14 witness: the callback was invoked for a status document without
\* percentComplete (fraction 0) and then for one reporting 100 (fraction 1).
C14_Witness ==
    /\ Len(progress_calls) = 2
    /\ "percentComplete" \notin DOMAIN polled[1]
    /\ progress_calls[1].fraction.num = 0
    /\ "percentComplete" \in DOMAIN polled[2]
    /\ polled[2]["percentComplete"] = 100
    /\ progress_calls[2].fraction.num = progress_calls[2].fraction.den

\* The tenant segment of a query URL (empty for a URL not built yet).
UrlTenant(url) == IF Len(url) >= 4 THEN url[4] ELSE ""

\* C15: when two calls with different tenant ids are interleaved on one
\* instance, the URL each call has built, and the URL of every request it
\* has sent, names the tenant id passed to that call.
C15_NoSharedState ==
    (\A c, d \in Calls : (c # d /\ call_pc[c] # "idle" /\ call_pc[d] # "idle")
                            => call_tenant_id[c] # call_tenant_id[d]) =>
        /\ \A c \in Calls :
              call_url[c] # <<>> => UrlTenant(call_url[c]) = call_tenant_id[c]
        /\ \A r \in call_requests : UrlTenant(r.url) = call_tenant_id[r.call]

\* The polls that reported 100 percent.
Completions == {i \in 1..Len(polled) : Reports100(polled[i])}

\* C16: in a query whose submission was accepted and whose status polls all
\* succeeded, the loop runs while no poll has reported 100, sleeping 2
\* seconds after each of them; the first poll that reports 100 is the last
\* one, no sleep follows it, and the call goes on to the results GET and
\* ends.
C16_Termination ==
    (InFetch /\ Cardinality(StatusPolls) = Len(polled) /\ raised.type # "CallbackError") =>
        /\ Completions = {} =>
             /\ ~LoopExited
             /\ slept = POLL_DELAY * Len(polled)
        /\ Completions # {} =>
             /\ Completions = {Len(polled)}
             /\ Cardinality(StatusPolls) = Len(polled)
             /\ slept = POLL_DELAY * (Len(polled) - 1)
             /\ pc \in {"fetch", "done", "failed"}
             /\ pc = "fetch" => ENABLED FetchResults
             /\ pc \in {"done", "failed"} => Cardinality(ResultGets) = 1

C16_Witness ==
    /\ pc = "done"
    /\ Len(polled) = 3
    /\ Completions = {3}
    /\ Cardinality(StatusPolls) = 3
    /\ slept = 2 * POLL_DELAY
    /\ Cardinality(ResultGets) = 1

\* C17: whichever return statement the latest run_search left by, it
\* returned one value for each of the four outputs of the Run Search button.
C17_SearchArity ==
    last_search # "none" => Len(returned) = Len(SearchOutputs)

\* C18: the client state holds a client exactly when the latest
\* connect_to_smc both authenticated and listed the tenants; the filter and
\* visualization panels are visible exactly when it does; a run_search that
\* found no client called no API.
C18_ConnectionState ==
    /\ (smc_client # "None") <=> (last_connect = "ok")
    /\ filters_interface.visible <=> (smc_client # "None")
    /\ viz_interface.visible <=> (smc_client # "None")
    /\ last_search = "no_client" => (api_calls = 0 /\ fetched_tenant_id = <<>>)

\* A connection that failed after an earlier one had succeeded, then a search.
C18_Witness ==
    /\ last_connect = "list_failed"
    /\ tenant_dd.choices # <<>>
    /\ smc_client = "None"
    /\ ~filters_interface.visible
    /\ ~viz_interface.visible
    /\ last_search = "no_client"
    /\ api_calls = 0

\* C19: when run_search is given the label of a listed tenant that has a
\* name and an id, the tenant id it parses out of the label and passes to
\* fetch_flows is that tenant's id.
C19_LabelRoundTrip ==
    (api_calls = 1 /\ {"name", "id"} \subseteq DOMAIN selected) =>
        fetched_tenant_id = selected["id"]

\* C20: the CSV path state holds a path exactly when the latest run_search
\* returned flows and wrote the CSV, so that generate_visualizations, which
\* reads the CSV exactly when the state holds a path, reads one only after
\* a latest search that succeeded.
C20_ResultHandle ==
    (csv_path_state # "None") <=> (last_search = "success")

====
